---- MODULE Spec2Model ----
(***************************************************************************)
(* Verification model of the math-problem application:                     *)
(*   - POST /api/math-problem          (problem generation, normalisation  *)
(*     of the model's raw text, session insert)                            *)
(*   - POST /api/math-problem/submit   (answer evaluation, star rating,    *)
(*     feedback call, submission insert)                                   *)
(* The two database tables are sequences of rows; a session's identifier   *)
(* is its position in the sessions table (rows are never removed).         *)
(* The source holds two revisions of each handler; the model follows the   *)
(* later one (the generation route with difficulty and topic, the submit   *)
(* route with elapsed time and stars).                                     *)
(***************************************************************************)
EXTENDS Integers, Sequences, FiniteSets, TLC

VARIABLES sessions, submissions, gen, sub, nreq, page

vars == <<sessions, submissions, gen, sub, nreq, page>>

(***************************************************************************)
(* Bounds of the model.                                                    *)
(***************************************************************************)
\* longest enumerated raw model text, in tokens
MaxTextLen == 5
\* requests (generate and submit together) accepted in the system specification
MaxRequests == 3
\* largest elapsed time, in seconds, a submit request carries
MaxTime == 181
\* requests (generate and submit together) the page starts
MaxPageRequests == 3
\* requests the page starts in a visit checked for liveness
MaxShortRequests == 2
\* seconds the page's timer advances in one step of the model
TickSeconds == 90

(***************************************************************************)
(* JavaScript values, tagged by their typeof.                              *)
(***************************************************************************)
Undef == [t |-> "undefined", n |-> 0, s |-> ""]
Null == [t |-> "null", n |-> 0, s |-> ""]
Num(k) == [t |-> "number", n |-> k, s |-> ""]
Str(x) == [t |-> "string", n |-> 0, s |-> x]

\* the number k + 0.5; s holds a number's fractional digits
Half(k) == [t |-> "number", n |-> k, s |-> ".5"]

\* Number.isInteger(v)
IsInteger(v) == v.t = "number" /\ v.s = ""

\* !v for the values above
Falsy(v) ==
    \/ v.t = "undefined"
    \/ v.t = "null"
    \/ v.t = "number" /\ v.n = 0 /\ v.s = ""
    \/ v.t = "string" /\ v.s = ""

\* a || b
OrElse(a, b) == IF Falsy(a) THEN b ELSE a

(***************************************************************************)
(* Raw model text.  A text is a sequence of tokens:                        *)
(*   "ws"  a run of white space                                            *)
(*   "fj"  the characters ```json        "f"  the characters ```           *)
(*   "w"   prose holding no brace and no back-tick                         *)
(*   "{" "}"  a brace                                                      *)
(*   "b1" "b2" "be" "bs" "bn" "bf"  the members of one JSON object,       *)
(*         without its braces (see Members)                                *)
(*   "n"   the JSON number 42            "nul"  the JSON literal null      *)
(***************************************************************************)
EnumTokens == {"ws", "fj", "f", "w", "{", "}", "b1"}

MemberTokens == {"b1", "b2", "be", "bs", "bn", "bf"}

\* the object a member list denotes
Members(b) ==
    CASE b = "b1" -> [problem_text |-> Str("p1"), final_answer |-> Num(7), hint |-> Str("h1")]
      [] b = "b2" -> [problem_text |-> Str("p2"), final_answer |-> Num(12), hint |-> Undef]
      [] b = "be" -> [problem_text |-> Str(""), final_answer |-> Num(7), hint |-> Str("h1")]
      [] b = "bs" -> [problem_text |-> Str("p1"), final_answer |-> Str("7"), hint |-> Str("h1")]
      [] b = "bn" -> [problem_text |-> Num(5), final_answer |-> Num(7), hint |-> Undef]
      [] b = "bf" -> [problem_text |-> Str("p3"), final_answer |-> Half(12), hint |-> Str("h3")]

EmptyObject == [problem_text |-> Undef, final_answer |-> Undef, hint |-> Undef]

\* the fallback problem of the handler
DefaultProblem ==
    [problem_text |-> Str("Sarah has 25 apples. She gives 10 apples to her friend. How many apples does Sarah have left?"),
     final_answer |-> Num(15),
     hint |-> Undef]

RECURSIVE TrimLeft(_)
TrimLeft(s) == IF s # <<>> /\ Head(s) = "ws" THEN TrimLeft(Tail(s)) ELSE s

RECURSIVE TrimRight(_)
TrimRight(s) ==
    IF s # <<>> /\ s[Len(s)] = "ws" THEN TrimRight(SubSeq(s, 1, Len(s) - 1)) ELSE s

\* String.prototype.trim
Trim(s) == TrimRight(TrimLeft(s))

\* JSON.parse: ok is FALSE when it throws SyntaxError; kind is the sort of
\* value it returned and val the members an object holds.
ParseFailure == [ok |-> FALSE, kind |-> "none", val |-> EmptyObject]

JSONParse(s) ==
    LET c == SelectSeq(s, LAMBDA t : t # "ws")
    IN  IF Len(c) = 3 /\ c[1] = "{" /\ c[2] \in MemberTokens /\ c[3] = "}"
        THEN [ok |-> TRUE, kind |-> "object", val |-> Members(c[2])]
        ELSE IF c = <<"{", "}">>
        THEN [ok |-> TRUE, kind |-> "object", val |-> EmptyObject]
        ELSE IF c = <<"n">>
        THEN [ok |-> TRUE, kind |-> "number", val |-> EmptyObject]
        ELSE IF c = <<"nul">>
        THEN [ok |-> TRUE, kind |-> "null", val |-> EmptyObject]
        ELSE ParseFailure

\* jsonText.replace(/```json\s*|\s*```/g, '')
RECURSIVE StripJsonFences(_)
StripJsonFences(s) ==
    IF s = <<>> THEN <<>>
    ELSE IF Head(s) = "fj" THEN StripJsonFences(TrimLeft(Tail(s)))
    ELSE IF Head(s) = "f" THEN StripJsonFences(Tail(s))
    ELSE IF Head(s) = "ws"
    THEN LET rest == TrimLeft(s)
             run == SubSeq(s, 1, Len(s) - Len(rest))
         IN  IF rest # <<>> /\ Head(rest) = "f" THEN StripJsonFences(Tail(rest))
             ELSE IF rest # <<>> /\ Head(rest) = "fj"
             THEN <<"w">> \o StripJsonFences(Tail(rest))
             ELSE run \o StripJsonFences(rest)
    ELSE <<Head(s)>> \o StripJsonFences(Tail(s))

\* jsonText.replace(/```\s*|\s*```/g, '')
RECURSIVE StripFences(_)
StripFences(s) ==
    IF s = <<>> THEN <<>>
    ELSE IF Head(s) = "f" THEN StripFences(TrimLeft(Tail(s)))
    ELSE IF Head(s) = "fj" THEN <<"w">> \o StripFences(Tail(s))
    ELSE IF Head(s) = "ws"
    THEN LET rest == TrimLeft(s)
             run == SubSeq(s, 1, Len(s) - Len(rest))
         IN  IF rest # <<>> /\ Head(rest) = "f" THEN StripFences(Tail(rest))
             ELSE IF rest # <<>> /\ Head(rest) = "fj"
             THEN <<"w">> \o StripFences(Tail(rest))
             ELSE run \o StripFences(rest)
    ELSE <<Head(s)>> \o StripFences(Tail(s))

\* the markdown branch: strip the fence markers of a text that starts with one
RemoveCodeBlockMarkers(s) ==
    IF s # <<>> /\ Head(s) = "fj" THEN StripJsonFences(s)
    ELSE IF s # <<>> /\ Head(s) = "f" THEN StripFences(s)
    ELSE s

Positions(s, tok) == {i \in 1..Len(s) : s[i] = tok}

Min(S) == CHOOSE x \in S : \A y \in S : x <= y

Max(S) == CHOOSE x \in S : \A y \in S : x >= y

\* jsonText.match(/\{[\s\S]*\}/): from the first "{" to the last "}"
ExtractObject(s) ==
    LET opens == Positions(s, "{")
        closes == Positions(s, "}")
    IN  IF opens # {} /\ closes # {} /\ Min(opens) < Max(closes)
        THEN SubSeq(s, Min(opens), Max(closes))
        ELSE s

\* the text handed to the second JSON.parse
CleanedText(text) == ExtractObject(RemoveCodeBlockMarkers(Trim(text)))

\* mutant of ParseAIResponse: no fallback problem after the second failure
ParseAIResponseWithoutFallback(text) ==
    LET direct == JSONParse(text)
        second == JSONParse(CleanedText(text))
    IN  IF direct.ok THEN direct
        ELSE IF second.ok THEN second
        ELSE [ok |-> TRUE, kind |-> "fallback", val |-> EmptyObject]

\* The normalizer: first a direct parse, then a parse of the cleaned text,
\* then the fallback problem.
ParseAIResponse(text) ==
    LET direct == JSONParse(text)
        second == JSONParse(CleanedText(text))
    IN  IF direct.ok THEN direct
        ELSE IF second.ok THEN second
        ELSE [ok |-> TRUE, kind |-> "fallback", val |-> DefaultProblem]

(***************************************************************************)
(* Inputs.                                                                 *)
(***************************************************************************)
\* every token sequence up to MaxTextLen, and some longer replies of the model
EnumTexts == UNION {[1..k -> EnumTokens] : k \in 0..MaxTextLen}

CuratedTexts ==
    { <<"{", "b1", "}">>,
      <<"{", "b2", "}">>,
      <<"fj", "ws", "{", "b2", "}", "ws", "f">>,
      <<"w", "ws", "fj", "ws", "{", "b1", "}", "ws", "f", "ws", "w">>,
      <<"w", "ws", "{", "b1", "}", "ws", "w", "{", "w", "}">>,
      <<"w">>,
      <<"{", "}">>,
      <<"{", "be", "}">>,
      <<"f", "ws", "{", "bs", "}", "ws", "f">>,
      <<"{", "bn", "}">>,
      <<"{", "bf", "}">>,
      <<"n">>,
      <<"nul">> }

Texts == EnumTexts \cup CuratedTexts

\* the replies drawn where the text is not what is studied
FewTexts == { <<"{", "b1", "}">>, <<"w">>, <<"{", "}">> }

Difficulties == {"easy", "medium", "hard"}

Topics == {"addition", "subtraction", "multiplication", "division", "random"}

\* a generate request's body: json is FALSE when request.json() throws
\* (no body, or text that is not JSON)
GenBody(d, t) == [json |-> TRUE, difficulty |-> d, topic |-> t]

NoGenBody == [json |-> FALSE, difficulty |-> Undef, topic |-> Undef]

DifficultyInputs == {Undef} \cup {Str(d) : d \in Difficulties} \cup {Str("extreme")}

TopicInputs == {Undef} \cup {Str(t) : t \in Topics} \cup {Str("geometry")}

GenBodies == {NoGenBody} \cup {GenBody(d, t) : d \in DifficultyInputs, t \in TopicInputs}

FewGenBodies == {NoGenBody} \cup {GenBody(d, Undef) : d \in DifficultyInputs}

TwoGenBodies == {NoGenBody, GenBody(Undef, Undef), GenBody(Str("hard"), Str("division"))}

\* messages of the errors the model call throws
AIErrors == {"fetch failed", "quota exceeded"}

\* messages of the errors the database returns
DbErrors == {"connection refused", "permission denied"}

\* `Failed to save problem: ${dbError.message}`
SaveFailureMessage(msg) == "Failed to save problem: " \o msg

(***************************************************************************)
(* State.                                                                  *)
(***************************************************************************)
NoGenResponse == [status |-> 0, problem |-> EmptyObject, sessionId |-> 0, error |-> ""]

GenError(msg) == [status |-> 500, problem |-> EmptyObject, sessionId |-> 0, error |-> msg]

\* the generate request being served: pc is the await it is suspended at
\* body is the request's body, ai the outcome of the model call and cause the
\* message of the error the model call threw or the insert returned
IdleGen ==
    [pc |-> "idle", body |-> NoGenBody, difficulty |-> Undef, topic |-> Undef,
     ai |-> "none", hasText |-> FALSE, text |-> <<>>, parsed |-> ParseFailure,
     insert |-> "none", cause |-> "", resp |-> NoGenResponse]

\* mutant of SessionRow: the row holds the fallback problem's answer
SessionRowWithDefaultAnswer(id, p, difficulty, topic) ==
    [id |-> id,
     problem_text |-> p.problem_text,
     correct_answer |-> DefaultProblem.final_answer,
     hint |-> OrElse(p.hint, Null),
     difficulty |-> difficulty,
     topic |-> topic]

\* a row of math_problem_sessions
SessionRow(id, p, difficulty, topic) ==
    [id |-> id,
     problem_text |-> p.problem_text,
     correct_answer |-> p.final_answer,
     hint |-> OrElse(p.hint, Null),
     difficulty |-> difficulty,
     topic |-> topic]

(***************************************************************************)
(* POST /api/math-problem                                                  *)
(***************************************************************************)
\* mutant of MissingRequiredFields: the answer's type is not checked
MissingRequiredFieldsUntyped(v) == Falsy(v.problem_text)

\* mutant of MissingRequiredFields: the hint is required too
MissingRequiredFieldsOrHint(v) ==
    Falsy(v.problem_text) \/ v.final_answer.t # "number" \/ Falsy(v.hint)

\* the check the handler makes of the parsed value
MissingRequiredFields(v) == Falsy(v.problem_text) \/ v.final_answer.t # "number"

\* mutant of ValidateParsed: an object is accepted whatever its fields
ValidateParsedLenient(parsed) ==
    IF parsed.kind = "null" THEN "TypeError" ELSE "ok"

\* what the synchronous code after the model call does with the text:
\* "ok" when it reaches the insert, else the message of the error it throws
ValidateParsed(parsed) ==
    IF parsed.kind = "null" THEN "TypeError"
    ELSE IF MissingRequiredFields(parsed.val) THEN "Invalid AI response format"
    ELSE IF parsed.val.problem_text.t # "string" THEN "TypeError"
    ELSE "ok"

\* POST: read the body, default the preferences, start the model call
POSTGenerate(bodies, allowed) ==
    /\ allowed
    /\ gen.pc \in {"idle", "done"}
    /\ \E body \in bodies :
         gen' = IF body.json
                THEN [IdleGen EXCEPT !.pc = "ai", !.body = body,
                                     !.difficulty = OrElse(body.difficulty, Str("medium")),
                                     !.topic = OrElse(body.topic, Str("random"))]
                ELSE [IdleGen EXCEPT !.pc = "done",
                                     !.resp = GenError("Internal server error")]
    /\ nreq' = [nreq EXCEPT !.gen = @ + 1]
    /\ UNCHANGED <<page, sessions, submissions, sub>>

\* model.generateContent returns text: parse and validate it
GenerateContentReturns(texts) ==
    /\ gen.pc = "ai"
    /\ \E text \in texts :
         LET parsed == ParseAIResponse(text)
             outcome == ValidateParsed(parsed)
         IN  gen' = IF outcome = "ok"
                    THEN [gen EXCEPT !.pc = "insert", !.ai = "ok", !.hasText = TRUE,
                                     !.text = text, !.parsed = parsed]
                    ELSE [gen EXCEPT !.pc = "done", !.ai = "ok", !.hasText = TRUE,
                                     !.text = text, !.parsed = parsed,
                                     !.resp = GenError(outcome)]
    /\ UNCHANGED <<page, sessions, submissions, sub, nreq>>

\* model.generateContent throws: the catch answers 500 with the error's message
GenerateContentFails ==
    /\ gen.pc = "ai"
    /\ \E msg \in AIErrors :
         gen' = [gen EXCEPT !.pc = "done", !.ai = "failed", !.cause = msg,
                            !.resp = GenError(msg)]
    /\ UNCHANGED <<page, sessions, submissions, sub, nreq>>

\* mutant of InsertSessionOk: the table keeps only the newest problem
InsertSessionReplaces ==
    /\ gen.pc = "insert"
    /\ LET id == Len(sessions) + 1
       IN  /\ sessions' = [i \in 1..id |->
                              SessionRow(i, gen.parsed.val, gen.difficulty, gen.topic)]
           /\ gen' = [gen EXCEPT !.pc = "done", !.insert = "ok",
                                 !.resp = [status |-> 201,
                                           problem |-> gen.parsed.val,
                                           sessionId |-> id,
                                           error |-> ""]]
    /\ UNCHANGED <<page, submissions, sub, nreq>>

\* the insert into math_problem_sessions succeeds: respond 201
InsertSessionOk ==
    /\ gen.pc = "insert"
    /\ LET id == Len(sessions) + 1
       IN  /\ sessions' = Append(sessions,
                                 SessionRow(id, gen.parsed.val, gen.difficulty, gen.topic))
           /\ gen' = [gen EXCEPT !.pc = "done", !.insert = "ok",
                                 !.resp = [status |-> 201,
                                           problem |-> gen.parsed.val,
                                           sessionId |-> id,
                                           error |-> ""]]
    /\ UNCHANGED <<page, submissions, sub, nreq>>

\* mutant of InsertSessionFails: dbError is only logged, as the submit route does
InsertSessionFailsLogged ==
    /\ gen.pc = "insert"
    /\ \E msg \in DbErrors :
         gen' = [gen EXCEPT !.pc = "done", !.insert = "failed", !.cause = msg,
                            !.resp = [status |-> 201, problem |-> gen.parsed.val,
                                      sessionId |-> 0, error |-> ""]]
    /\ UNCHANGED <<page, sessions, submissions, sub, nreq>>

\* the insert returns dbError: throw, and the catch answers 500
InsertSessionFails ==
    /\ gen.pc = "insert"
    /\ \E msg \in DbErrors :
         gen' = [gen EXCEPT !.pc = "done", !.insert = "failed", !.cause = msg,
                            !.resp = GenError(SaveFailureMessage(msg))]
    /\ UNCHANGED <<page, sessions, submissions, sub, nreq>>

(***************************************************************************)
(* POST /api/math-problem/submit                                           *)
(***************************************************************************)
\* a submit request's body; sessionId 0 stands for a missing sessionId
SubmitBody(id, answer, time) ==
    [json |-> TRUE, sessionId |-> id, userAnswer |-> answer, timeTakenSeconds |-> time]

NoSubmitBody ==
    [json |-> FALSE, sessionId |-> 0, userAnswer |-> Undef, timeTakenSeconds |-> Undef]

AnswerInputs == {Undef, Str("7"), Num(7), Num(15)}

TimeInputs == {Undef} \cup {Num(k) : k \in 0..MaxTime}

FewTimeInputs == {Undef, Num(0), Num(45), Num(MaxTime)}

\* the session identifiers a client may send: none, every stored one, an unknown one
IdInputs == 0..(Len(sessions) + 1)

SubmitBodies ==
    {NoSubmitBody}
        \cup {SubmitBody(id, a, t) : id \in IdInputs, a \in AnswerInputs, t \in TimeInputs}

FewSubmitBodies ==
    {NoSubmitBody}
        \cup {SubmitBody(id, a, t) : id \in IdInputs, a \in AnswerInputs, t \in FewTimeInputs}

\* replies of the feedback call, as token sequences
FeedbackTexts == { <<"ws", "w", "ws">>, <<"w", "ws", "w">> }

NoSession ==
    [id |-> 0, problem_text |-> Undef, correct_answer |-> Undef, hint |-> Null,
     difficulty |-> Undef, topic |-> Undef]

\* hasResult: the response body holds isCorrect and feedback
NoSubmitResponse == [status |-> 0, hasResult |-> FALSE, isCorrect |-> FALSE, feedback |-> <<>>]

SubmitError(code) == [NoSubmitResponse EXCEPT !.status = code]

\* the submit request being served; dbReads, dbWrites and aiCalls count the
\* calls it has made
IdleSub ==
    [pc |-> "idle", body |-> NoSubmitBody, session |-> NoSession, isCorrect |-> FALSE,
     starsEarned |-> 0, feedbackText |-> <<>>, dbReads |-> 0, dbWrites |-> 0,
     aiCalls |-> 0, save |-> "none", resp |-> NoSubmitResponse]

\* the thresholds table
Thresholds(d) ==
    CASE d = "easy" -> [three |-> 30, two |-> 60]
      [] d = "medium" -> [three |-> 60, two |-> 120]
      [] d = "hard" -> [three |-> 120, two |-> 180]

\* session.difficulty || 'medium'
SessionDifficulty(session) == OrElse(session.difficulty, Str("medium")).s

\* mutant of IsCorrect: a comparison with a tolerance
IsCorrectWithTolerance(userAnswer, correctAnswer) ==
    /\ userAnswer.t = correctAnswer.t
    /\ userAnswer.n - correctAnswer.n \in -8..8

\* body.userAnswer === session.correct_answer
IsCorrect(userAnswer, correctAnswer) == userAnswer = correctAnswer

\* mutant of StarsApply: the rating no longer asks for a correct answer
StarsApplyToAnyAnswer(isCorrect, time) == time.t # "undefined"

\* whether the star block is entered
StarsApply(isCorrect, time) == isCorrect /\ time.t # "undefined"

\* thresholds[difficulty] is undefined and reading threshold.three throws
StarsThrow(isCorrect, time, session) ==
    StarsApply(isCorrect, time) /\ SessionDifficulty(session) \notin Difficulties

\* mutant of StarsEarned: a time equal to a threshold earns the higher rating
StarsEarnedInclusive(isCorrect, time, session) ==
    IF StarsApply(isCorrect, time)
    THEN LET threshold == Thresholds(SessionDifficulty(session))
         IN  IF time.n <= threshold.three THEN 3
             ELSE IF time.n <= threshold.two THEN 2
             ELSE 1
    ELSE 0

\* starsEarned after the star block
StarsEarned(isCorrect, time, session) ==
    IF StarsApply(isCorrect, time)
    THEN LET threshold == Thresholds(SessionDifficulty(session))
         IN  IF time.n < threshold.three THEN 3
             ELSE IF time.n < threshold.two THEN 2
             ELSE 1
    ELSE 0

\* mutant of SubmissionRow: the row records every attempt as correct
SubmissionRowMarkedCorrect(body, isCorrect, feedbackText, starsEarned) ==
    [session_id |-> body.sessionId,
     user_answer |-> body.userAnswer,
     is_correct |-> TRUE,
     feedback_text |-> feedbackText,
     time_taken_seconds |-> OrElse(body.timeTakenSeconds, Null),
     stars_earned |-> starsEarned]

\* a row of math_problem_submissions
SubmissionRow(body, isCorrect, feedbackText, starsEarned) ==
    [session_id |-> body.sessionId,
     user_answer |-> body.userAnswer,
     is_correct |-> isCorrect,
     feedback_text |-> feedbackText,
     time_taken_seconds |-> OrElse(body.timeTakenSeconds, Null),
     stars_earned |-> starsEarned]

\* mutant of MissingSubmitFields: presence is checked, the type is not
MissingSubmitFieldsUntyped(body) == body.sessionId = 0 \/ body.userAnswer.t = "undefined"

\* the field check at the head of the handler
MissingSubmitFields(body) == body.sessionId = 0 \/ body.userAnswer.t # "number"

\* POST: read and check the body, start the select
POSTSubmit(bodies, allowed) ==
    /\ allowed
    /\ sub.pc \in {"idle", "done"}
    /\ \E body \in bodies :
         sub' = IF ~body.json
                THEN [IdleSub EXCEPT !.pc = "done", !.body = body, !.resp = SubmitError(500)]
                ELSE IF MissingSubmitFields(body)
                THEN [IdleSub EXCEPT !.pc = "done", !.body = body, !.resp = SubmitError(400)]
                ELSE [IdleSub EXCEPT !.pc = "fetch", !.body = body]
    /\ nreq' = [nreq EXCEPT !.sub = @ + 1]
    /\ UNCHANGED <<page, sessions, submissions, gen>>

\* mutant of SelectSessionReturnsRow: the handler evaluates against the
\* problem generated last, as if the current session were shared by requests
SelectSessionReturnsLatest ==
    /\ sub.pc = "fetch"
    /\ sub.body.sessionId \in 1..Len(sessions)
    /\ LET session == sessions[Len(sessions)]
           isCorrect == IsCorrect(sub.body.userAnswer, session.correct_answer)
           time == sub.body.timeTakenSeconds
       IN  sub' = IF StarsThrow(isCorrect, time, session)
                  THEN [sub EXCEPT !.pc = "done", !.dbReads = @ + 1, !.session = session,
                                   !.isCorrect = isCorrect, !.resp = SubmitError(500)]
                  ELSE [sub EXCEPT !.pc = "feedback", !.dbReads = @ + 1,
                                   !.session = session, !.isCorrect = isCorrect,
                                   !.starsEarned = StarsEarned(isCorrect, time, session)]
    /\ UNCHANGED <<page, sessions, submissions, gen, nreq>>

\* the select returns the row: evaluate the answer, rate it, start the feedback call
SelectSessionReturnsRow ==
    /\ sub.pc = "fetch"
    /\ sub.body.sessionId \in 1..Len(sessions)
    /\ LET session == sessions[sub.body.sessionId]
           isCorrect == IsCorrect(sub.body.userAnswer, session.correct_answer)
           time == sub.body.timeTakenSeconds
       IN  sub' = IF StarsThrow(isCorrect, time, session)
                  THEN [sub EXCEPT !.pc = "done", !.dbReads = @ + 1, !.session = session,
                                   !.isCorrect = isCorrect, !.resp = SubmitError(500)]
                  ELSE [sub EXCEPT !.pc = "feedback", !.dbReads = @ + 1,
                                   !.session = session, !.isCorrect = isCorrect,
                                   !.starsEarned = StarsEarned(isCorrect, time, session)]
    /\ UNCHANGED <<page, sessions, submissions, gen, nreq>>

\* mutant of SelectSessionReturnsError: the early return is missing
SelectSessionErrorIgnored ==
    /\ sub.pc = "fetch"
    /\ sub' = [sub EXCEPT !.pc = "feedback", !.dbReads = @ + 1]
    /\ UNCHANGED <<page, sessions, submissions, gen, nreq>>

\* the select returns an error (no such row, or the database failed): 404
SelectSessionReturnsError ==
    /\ sub.pc = "fetch"
    /\ sub' = [sub EXCEPT !.pc = "done", !.dbReads = @ + 1, !.resp = SubmitError(404)]
    /\ UNCHANGED <<page, sessions, submissions, gen, nreq>>

\* the feedback call returns text
FeedbackReturns ==
    /\ sub.pc = "feedback"
    /\ \E text \in FeedbackTexts :
         sub' = [sub EXCEPT !.pc = "insert", !.aiCalls = @ + 1, !.feedbackText = Trim(text)]
    /\ UNCHANGED <<page, sessions, submissions, gen, nreq>>

\* mutant of FeedbackFails: the feedback call is tried again
FeedbackFailsRetried ==
    /\ sub.pc = "feedback"
    /\ sub' = [sub EXCEPT !.aiCalls = @ + 1]
    /\ UNCHANGED <<page, sessions, submissions, gen, nreq>>

\* the feedback call throws: 500
FeedbackFails ==
    /\ sub.pc = "feedback"
    /\ sub' = [sub EXCEPT !.pc = "done", !.aiCalls = @ + 1, !.resp = SubmitError(500)]
    /\ UNCHANGED <<page, sessions, submissions, gen, nreq>>

\* the response after the insert, whatever the insert returned
SubmitResponse ==
    [status |-> 201, hasResult |-> TRUE, isCorrect |-> sub.isCorrect,
     feedback |-> sub.feedbackText]

\* mutant of InsertSubmissionOk: one row per session, the newest attempt
InsertSubmissionUpserts ==
    /\ sub.pc = "insert"
    /\ submissions' =
         Append(SelectSeq(submissions, LAMBDA r : r.session_id # sub.body.sessionId),
                SubmissionRow(sub.body, sub.isCorrect, sub.feedbackText, sub.starsEarned))
    /\ sub' = [sub EXCEPT !.pc = "done", !.dbWrites = @ + 1, !.save = "ok",
                          !.resp = SubmitResponse]
    /\ UNCHANGED <<page, sessions, gen, nreq>>

\* mutant of InsertSubmissionOk: an attempt already stored is not stored again
InsertSubmissionOnce ==
    /\ sub.pc = "insert"
    /\ LET row == SubmissionRow(sub.body, sub.isCorrect, sub.feedbackText, sub.starsEarned)
       IN  submissions' = IF \E i \in 1..Len(submissions) : submissions[i] = row
                          THEN submissions
                          ELSE Append(submissions, row)
    /\ sub' = [sub EXCEPT !.pc = "done", !.dbWrites = @ + 1, !.save = "ok",
                          !.resp = SubmitResponse]
    /\ UNCHANGED <<page, sessions, gen, nreq>>

\* the insert into math_problem_submissions succeeds
InsertSubmissionOk ==
    /\ sub.pc = "insert"
    /\ submissions' = Append(submissions,
                             SubmissionRow(sub.body, sub.isCorrect, sub.feedbackText,
                                           sub.starsEarned))
    /\ sub' = [sub EXCEPT !.pc = "done", !.dbWrites = @ + 1, !.save = "ok",
                          !.resp = SubmitResponse]
    /\ UNCHANGED <<page, sessions, gen, nreq>>

\* mutant of InsertSubmissionFails: the save error fails the request
InsertSubmissionFailsRequest ==
    /\ sub.pc = "insert"
    /\ sub' = [sub EXCEPT !.pc = "done", !.dbWrites = @ + 1, !.save = "failed",
                          !.resp = SubmitError(500)]
    /\ UNCHANGED <<page, sessions, submissions, gen, nreq>>

\* the insert returns submitError: logged, and the response is the same
InsertSubmissionFails ==
    /\ sub.pc = "insert"
    /\ sub' = [sub EXCEPT !.pc = "done", !.dbWrites = @ + 1, !.save = "failed",
                          !.resp = SubmitResponse]
    /\ UNCHANGED <<page, sessions, submissions, gen, nreq>>

(***************************************************************************)
(* The page (src/app/page.tsx).  page holds the component's state, the     *)
(* achievements saved in localStorage and the requests in flight.  A       *)
(* request in flight keeps the values its handler closed over when it was  *)
(* started: the continuation after the await reads those, not the state    *)
(* of the latest render.  A control is operable when it is rendered and    *)
(* not disabled: neither modal takes the form or the hint button out of    *)
(* the page or out of the keyboard's reach.  Sound, confetti and the       *)
(* achievement notification are left out.                                  *)
(***************************************************************************)
\* the problems the page's generate requests are answered with
PageProblems == {Members("b1")}

\* the texts the learner types into the answer field
AnswerTexts == {"7", "15"}

\* parseInt(userAnswer)
ParseInt(text) == CASE text = "7" -> Num(7) [] text = "15" -> Num(15)

\* the difficulties and topics the learner picks in the model
PageDifficulties == {"medium", "hard"}

PageTopics == {"random", "division"}

\* problem === null
NoProblem == EmptyObject

\* the keys of the achievements
AchievementKeys == {"firstSteps", "speedStar", "problemSolver", "perfection", "helperSeeker"}

\* a request in flight, with the values of the render it was started from
GenerateRequest(d, t) ==
    [kind |-> "generate", difficulty |-> d, topic |-> t, sessionId |-> 0,
     userAnswer |-> Undef, finalTime |-> 0, potentialStars |-> 0,
     achievements |-> {}, problemsCompleted |-> 0, correctStreak |-> 0, hintsUsed |-> 0]

SubmitRequest(p, stars) ==
    [kind |-> "submit", difficulty |-> "", topic |-> "",
     sessionId |-> p.sessionId, userAnswer |-> ParseInt(p.userAnswer),
     finalTime |-> p.timerSeconds, potentialStars |-> stars,
     achievements |-> p.achievements, problemsCompleted |-> p.problemsCompleted,
     correctStreak |-> p.correctStreak, hintsUsed |-> p.hintsUsed]

\* the useState initial values, an empty localStorage, no request in flight;
\* feedback is 0 for '' and else the number of the submission row it belongs to
InitialPage ==
    [problem |-> NoProblem, userAnswer |-> "", feedback |-> 0, isLoading |-> FALSE,
     loadingType |-> "null", sessionId |-> 0, isCorrect |-> "null", error |-> "null",
     showHint |-> FALSE, showFeedbackModal |-> FALSE, showSettingsModal |-> FALSE,
     difficulty |-> "medium", topic |-> "random",
     tempDifficulty |-> "medium", tempTopic |-> "random",
     timerSeconds |-> 0, timerActive |-> FALSE, starsEarned |-> -1,
     achievements |-> {}, problemsCompleted |-> 0, correctStreak |-> 0, hintsUsed |-> 0,
     mathAchievements |-> {}, requests |-> <<>>, started |-> 0]

\* calculateStars
CalculateStars(timeInSeconds, difficultyLevel) ==
    LET threshold == Thresholds(difficultyLevel)
    IN  IF timeInSeconds < threshold.three THEN 3
        ELSE IF timeInSeconds < threshold.two THEN 2
        ELSE 1

\* checkAchievements: the achievements it unlocks, read from the values v of
\* the render the caller was started from
NewAchievementsUnlocked(v, isCorrect, stars) ==
    {k \in AchievementKeys \ v.achievements :
        \/ k = "firstSteps" /\ v.problemsCompleted = 0
        \/ k = "speedStar" /\ stars = 3
        \/ k = "problemSolver" /\ v.problemsCompleted + 1 >= 5
        \/ k = "perfection" /\ isCorrect /\ v.correctStreak + 1 >= 3
        \/ k = "helperSeeker" /\ v.hintsUsed = 1}

\* page with the request at position i taken out of the requests in flight
WithoutRequest(i) ==
    [page EXCEPT !.requests = SubSeq(page.requests, 1, i - 1)
                                \o SubSeq(page.requests, i + 1, Len(page.requests))]

\* openSettingsModal, from a 'New Problem' button
OpenSettingsModal ==
    /\ ~page.isLoading
    /\ page' = [page EXCEPT !.tempDifficulty = page.difficulty, !.tempTopic = page.topic,
                            !.showSettingsModal = TRUE]
    /\ UNCHANGED <<sessions, submissions, gen, sub, nreq>>

\* handleTryAnotherProblem, from the feedback modal
HandleTryAnotherProblem ==
    /\ page.showFeedbackModal /\ page.feedback # 0
    /\ page' = [page EXCEPT !.showFeedbackModal = FALSE,
                            !.tempDifficulty = page.difficulty, !.tempTopic = page.topic,
                            !.showSettingsModal = TRUE]
    /\ UNCHANGED <<sessions, submissions, gen, sub, nreq>>

\* closeFeedbackModal, from the X or the backdrop of the feedback modal
CloseFeedbackModal ==
    /\ page.showFeedbackModal /\ page.feedback # 0
    /\ page' = [page EXCEPT !.showFeedbackModal = FALSE]
    /\ UNCHANGED <<sessions, submissions, gen, sub, nreq>>

\* mutant of SetTempDifficulty: the choice is committed at once
SetTempDifficultyCommits ==
    /\ page.showSettingsModal
    /\ \E level \in PageDifficulties :
         page' = [page EXCEPT !.tempDifficulty = level, !.difficulty = level]
    /\ UNCHANGED <<sessions, submissions, gen, sub, nreq>>

\* setTempDifficulty and setTempTopic, from the buttons of the settings modal
SetTempDifficulty ==
    /\ page.showSettingsModal
    /\ \E level \in PageDifficulties : page' = [page EXCEPT !.tempDifficulty = level]
    /\ UNCHANGED <<sessions, submissions, gen, sub, nreq>>

SetTempTopic ==
    /\ page.showSettingsModal
    /\ \E t \in PageTopics : page' = [page EXCEPT !.tempTopic = t]
    /\ UNCHANGED <<sessions, submissions, gen, sub, nreq>>

\* closeSettingsModal, from Cancel, the X or the backdrop
CloseSettingsModal ==
    /\ page.showSettingsModal
    /\ page' = [page EXCEPT !.showSettingsModal = FALSE]
    /\ UNCHANGED <<sessions, submissions, gen, sub, nreq>>

\* handleEscape
HandleEscape ==
    /\ page.showFeedbackModal \/ page.showSettingsModal
    /\ page' = IF page.showFeedbackModal
               THEN [page EXCEPT !.showFeedbackModal = FALSE]
               ELSE [page EXCEPT !.showSettingsModal = FALSE]
    /\ UNCHANGED <<sessions, submissions, gen, sub, nreq>>

\* handleGenerateFromModal, and generateProblemWithSettings up to its await
HandleGenerateFromModal(allowed) ==
    /\ allowed
    /\ page.showSettingsModal
    /\ page' = [page EXCEPT !.difficulty = page.tempDifficulty, !.topic = page.tempTopic,
                            !.showSettingsModal = FALSE,
                            !.isLoading = TRUE, !.loadingType = "generating",
                            !.requests = Append(@, GenerateRequest(page.tempDifficulty,
                                                                   page.tempTopic)),
                            !.started = @ + 1]
    /\ UNCHANGED <<sessions, submissions, gen, sub, nreq>>

\* onChange of the answer field
SetUserAnswer ==
    /\ page.problem # NoProblem /\ ~page.isLoading
    /\ \E text \in AnswerTexts \cup {""} : page' = [page EXCEPT !.userAnswer = text]
    /\ UNCHANGED <<sessions, submissions, gen, sub, nreq>>

\* the timer's interval: TickSeconds ticks of setTimerSeconds(prev => prev + 1)
TimerTicks ==
    /\ page.timerActive
    /\ page.timerSeconds + TickSeconds <= MaxTime
    /\ page' = [page EXCEPT !.timerSeconds = @ + TickSeconds]
    /\ UNCHANGED <<sessions, submissions, gen, sub, nreq>>

\* the hint button's onClick
ShowHintClicked ==
    /\ page.problem # NoProblem /\ ~Falsy(page.problem.hint) /\ ~page.showHint
    /\ LET newHintsUsed == page.hintsUsed + 1
           unlocks == newHintsUsed = 1 /\ "helperSeeker" \notin page.achievements
           updatedAchievements == page.achievements \cup {"helperSeeker"}
       IN  page' = [page EXCEPT !.showHint = TRUE, !.hintsUsed = newHintsUsed,
                                !.achievements = IF unlocks THEN updatedAchievements ELSE @,
                                !.mathAchievements = IF unlocks THEN updatedAchievements ELSE @]
    /\ UNCHANGED <<sessions, submissions, gen, sub, nreq>>

\* submitAnswer up to its await
SubmitAnswer(allowed) ==
    /\ allowed
    /\ page.problem # NoProblem /\ page.userAnswer # "" /\ ~page.isLoading
    /\ page.sessionId # 0
    /\ LET potentialStars == CalculateStars(page.timerSeconds, page.difficulty)
       IN  page' = [page EXCEPT !.timerActive = FALSE,
                                !.isLoading = TRUE, !.loadingType = "checking",
                                !.requests = Append(@, SubmitRequest(page, potentialStars)),
                                !.started = @ + 1]
    /\ UNCHANGED <<sessions, submissions, gen, sub, nreq>>

\* generateProblemWithSettings after its await, the response being 201: the
\* route has stored the session the request asked for
GenerateSucceeds ==
    \E i \in 1..Len(page.requests), p \in PageProblems :
        LET r == page.requests[i]
            id == Len(sessions) + 1
        IN  /\ r.kind = "generate"
            /\ sessions' = Append(sessions, SessionRow(id, p, Str(r.difficulty), Str(r.topic)))
            /\ page' = [WithoutRequest(i) EXCEPT
                            !.problem = p, !.sessionId = id, !.feedback = 0,
                            !.userAnswer = "", !.isCorrect = "null", !.error = "null",
                            !.showHint = FALSE, !.starsEarned = -1,
                            !.timerSeconds = 0, !.timerActive = TRUE,
                            !.isLoading = FALSE, !.loadingType = "null"]
            /\ UNCHANGED <<submissions, gen, sub, nreq>>

\* mutant of RequestFails: the loading state is cleared on success only
RequestFailsStillLoading ==
    \E i \in 1..Len(page.requests) :
        /\ page' = [WithoutRequest(i) EXCEPT
                        !.error = IF page.requests[i].kind = "generate"
                                  THEN "Failed to generate problem. Please check your connection and try again."
                                  ELSE "Failed to submit answer. Please try again."]
        /\ UNCHANGED <<sessions, submissions, gen, sub, nreq>>

\* either function after its await, fetch having thrown or the response not
\* being ok: catch, then finally
RequestFails ==
    \E i \in 1..Len(page.requests) :
        /\ page' = [WithoutRequest(i) EXCEPT
                        !.error = IF page.requests[i].kind = "generate"
                                  THEN "Failed to generate problem. Please check your connection and try again."
                                  ELSE "Failed to submit answer. Please try again.",
                        !.isLoading = FALSE, !.loadingType = "null"]
        /\ UNCHANGED <<sessions, submissions, gen, sub, nreq>>

\* submitAnswer after its await, the response being 201: the route has
\* evaluated, rated and stored the attempt
SubmitSucceeds ==
    \E i \in 1..Len(page.requests) :
        LET r == page.requests[i]
            body == SubmitBody(r.sessionId, r.userAnswer, Num(r.finalTime))
            session == sessions[r.sessionId]
            isCorrect == IsCorrect(body.userAnswer, session.correct_answer)
            stars == StarsEarned(isCorrect, body.timeTakenSeconds, session)
            shown == IF isCorrect THEN r.potentialStars ELSE 0
            unlocked == NewAchievementsUnlocked(r, isCorrect, shown)
            updatedAchievements == r.achievements \cup unlocked
        IN  /\ r.kind = "submit"
            /\ submissions' = Append(submissions, SubmissionRow(body, isCorrect, <<"w">>, stars))
            /\ page' = [WithoutRequest(i) EXCEPT
                            !.feedback = Len(submissions) + 1,
                            !.isCorrect = IF isCorrect THEN "true" ELSE "false",
                            !.error = "null",
                            !.starsEarned = shown,
                            !.correctStreak = IF isCorrect THEN r.correctStreak + 1 ELSE 0,
                            !.problemsCompleted = r.problemsCompleted + 1,
                            !.achievements = IF unlocked # {} THEN updatedAchievements ELSE @,
                            !.mathAchievements = IF unlocked # {} THEN updatedAchievements ELSE @,
                            !.showFeedbackModal = TRUE,
                            !.isLoading = FALSE, !.loadingType = "null"]
            /\ UNCHANGED <<sessions, gen, sub, nreq>>

(***************************************************************************)
(* Specifications.                                                         *)
(***************************************************************************)
Init ==
    /\ sessions = <<>>
    /\ submissions = <<>>
    /\ gen = IdleGen
    /\ sub = IdleSub
    /\ nreq = [gen |-> 0, sub |-> 0]
    /\ page = InitialPage

\* one generate request, over every text
NextGen ==
    \/ POSTGenerate(TwoGenBodies, nreq.gen = 0)
    \/ GenerateContentReturns(Texts)
    \/ GenerateContentFails
    \/ InsertSessionOk
    \/ InsertSessionFails

SpecGen == Init /\ [][NextGen]_vars

\* one generate request, over every request body
NextGenBodies ==
    \/ POSTGenerate(GenBodies, nreq.gen = 0)
    \/ GenerateContentReturns(FewTexts)
    \/ GenerateContentFails
    \/ InsertSessionOk
    \/ InsertSessionFails

SpecGenBodies == Init /\ [][NextGenBodies]_vars

\* one generate request, then one submit request, over every submit body
NextSubmit ==
    \/ POSTGenerate(FewGenBodies, nreq.gen = 0)
    \/ GenerateContentReturns(FewTexts)
    \/ GenerateContentFails
    \/ InsertSessionOk
    \/ InsertSessionFails
    \/ POSTSubmit(SubmitBodies, gen.pc = "done" /\ nreq.sub = 0)
    \/ SelectSessionReturnsRow
    \/ SelectSessionReturnsError
    \/ FeedbackReturns
    \/ FeedbackFails
    \/ InsertSubmissionOk
    \/ InsertSubmissionFails

SpecSubmit == Init /\ [][NextSubmit]_vars

\* the system: generate and submit requests, interleaved at their awaits
Next ==
    \/ POSTGenerate(FewGenBodies, nreq.gen + nreq.sub < MaxRequests)
    \/ GenerateContentReturns(FewTexts)
    \/ GenerateContentFails
    \/ InsertSessionOk
    \/ InsertSessionFails
    \/ POSTSubmit(FewSubmitBodies, nreq.gen + nreq.sub < MaxRequests)
    \/ SelectSessionReturnsRow
    \/ SelectSessionReturnsError
    \/ FeedbackReturns
    \/ FeedbackFails
    \/ InsertSubmissionOk
    \/ InsertSubmissionFails

Spec == Init /\ [][Next]_vars

\* the page and the learner: the routes answer each request in one step
NextPage ==
    \/ OpenSettingsModal
    \/ HandleTryAnotherProblem
    \/ CloseFeedbackModal
    \/ SetTempDifficulty
    \/ SetTempTopic
    \/ CloseSettingsModal
    \/ HandleEscape
    \/ HandleGenerateFromModal(page.started < MaxPageRequests)
    \/ SetUserAnswer
    \/ TimerTicks
    \/ ShowHintClicked
    \/ SubmitAnswer(page.started < MaxPageRequests)
    \/ GenerateSucceeds
    \/ SubmitSucceeds
    \/ RequestFails

SpecPage == Init /\ [][NextPage]_vars

\* The page in a visit of at most MaxShortRequests requests.
NextPageShort ==
    \/ OpenSettingsModal \/ HandleTryAnotherProblem \/ CloseFeedbackModal
    \/ SetTempDifficulty \/ SetTempTopic \/ CloseSettingsModal \/ HandleEscape
    \/ HandleGenerateFromModal(page.started < MaxShortRequests)
    \/ SetUserAnswer \/ TimerTicks \/ ShowHintClicked
    \/ SubmitAnswer(page.started < MaxShortRequests)
    \/ GenerateSucceeds \/ SubmitSucceeds \/ RequestFails

SpecPageShort == Init /\ [][NextPageShort]_vars

\* a request in flight is answered: fetch settles, with a response or an error
RequestAnswered == GenerateSucceeds \/ SubmitSucceeds \/ RequestFails

\* The same visit when every fetch settles: a promise of fetch that stays
\* pending for ever is the one behaviour left out.
SpecPageLive == Init /\ [][NextPageShort]_vars /\ WF_vars(RequestAnswered)

(***************************************************************************)
(* Claims about the submit endpoint (checked under SpecSubmit).            *)
(***************************************************************************)
\* the submission row the request in sub has written
SavedRow == submissions[Len(submissions)]

\* the stored session the request in sub names
NamedSession == sessions[sub.body.sessionId]

\* C1: every submit response that carries a result (the request passed
\* validation and its session was found) has isCorrect true exactly when the
\* request's userAnswer is the number stored as that session's correct_answer.
C1_IsCorrectIsExactEquality ==
    sub.resp.hasResult =>
        /\ sub.body.userAnswer.t = "number"
        /\ sub.body.sessionId \in 1..Len(sessions)
        /\ sub.resp.isCorrect <=> (sub.body.userAnswer.n = NamedSession.correct_answer.n)

\* a response that judges the session's own answer correct
C1_Witness ==
    /\ sub.resp.hasResult
    /\ sub.resp.isCorrect
    /\ sub.body.userAnswer = Num(15)
    /\ NamedSession.correct_answer = Num(15)

\* the rating the claim gives time t under difficulty d
C2_First(d) == CASE d = "easy" -> 30 [] d = "medium" -> 60 [] d = "hard" -> 120

C2_Second(d) == CASE d = "easy" -> 60 [] d = "medium" -> 120 [] d = "hard" -> 180

C2_Rating(d, t) == IF t < C2_First(d) THEN 3 ELSE IF t < C2_Second(d) THEN 2 ELSE 1

\* C2: a saved correct submission that supplied elapsed time t against a
\* session of difficulty d stores 3 stars when t is below d's first threshold,
\* 2 when t is at or above the first and below the second, 1 otherwise
\* (medium: 59 -> 3, 60 -> 2, 61 -> 2, 120 -> 1, 121 -> 1).
C2_StarsFollowThresholds ==
    (sub.save = "ok" /\ SavedRow.is_correct /\ sub.body.timeTakenSeconds.t = "number"
        /\ NamedSession.difficulty.s \in Difficulties) =>
        LET d == NamedSession.difficulty.s
            t == sub.body.timeTakenSeconds.n
        IN  /\ SavedRow.stars_earned = C2_Rating(d, t)
            /\ (d = "medium" /\ t = 59) => SavedRow.stars_earned = 3
            /\ (d = "medium" /\ t \in {60, 61}) => SavedRow.stars_earned = 2
            /\ (d = "medium" /\ t \in {120, 121}) => SavedRow.stars_earned = 1

\* a correct medium submission at exactly the first threshold, saved with 2 stars
C2_Witness ==
    /\ sub.save = "ok"
    /\ SavedRow.is_correct
    /\ sub.body.timeTakenSeconds = Num(60)
    /\ NamedSession.difficulty = Str("medium")
    /\ SavedRow.stars_earned = 2

\* C3: the stars stored for a submission are 0 whenever the submission is
\* incorrect or the request supplied no elapsed time, and are at least 1 only
\* when the answer is correct and an elapsed time was supplied.
C3_NoStarsUnlessCorrectAndTimed ==
    sub.save = "ok" =>
        /\ SavedRow.stars_earned \in 0..3
        /\ (~SavedRow.is_correct \/ sub.body.timeTakenSeconds.t = "undefined")
              => SavedRow.stars_earned = 0
        /\ SavedRow.stars_earned >= 1
              => (SavedRow.is_correct /\ sub.body.timeTakenSeconds.t # "undefined")

\* a correct answer without elapsed time, saved with 0 stars
C3_Witness ==
    /\ sub.save = "ok"
    /\ SavedRow.is_correct
    /\ sub.body.timeTakenSeconds = Undef
    /\ SavedRow.stars_earned = 0

C5_UnknownSessionGives404AndNoRow ==
    (sub.pc = "done" /\ sub.body.json /\ sub.body.sessionId # 0
        /\ sub.body.userAnswer.t = "number"
        /\ sub.body.sessionId \notin 1..Len(sessions)) =>
        /\ sub.resp.status = 404
        /\ sub.dbWrites = 0
        /\ sub.aiCalls = 0
        /\ submissions = <<>>

\* an unknown identifier sent while another session is stored, answered 404
C5_Witness ==
    /\ sub.pc = "done"
    /\ Len(sessions) = 1
    /\ sub.body.sessionId = 2
    /\ sub.body.userAnswer = Num(7)
    /\ sub.resp.status = 404

\* C6: when the session was found and the feedback call succeeded but the
\* insert of the submission row failed, the request still answers 201 with
\* the computed isCorrect and the feedback text, and no row is stored.
C6_SaveFailureStillAnswers201 ==
    sub.save = "failed" =>
        /\ sub.resp.status = 201
        /\ sub.resp.hasResult
        /\ sub.resp.isCorrect <=> (sub.body.userAnswer.n = NamedSession.correct_answer.n)
        /\ sub.aiCalls = 1
        /\ sub.resp.feedback = sub.feedbackText
        /\ sub.resp.feedback \in {Trim(text) : text \in FeedbackTexts}
        /\ submissions = <<>>

\* a failed save of a correct answer, answered 201 with isCorrect true
C6_Witness ==
    /\ sub.save = "failed"
    /\ sub.resp.status = 201
    /\ sub.resp.isCorrect
    /\ sub.resp.feedback = <<"w">>

(***************************************************************************)
(* Claims about the generation endpoint (checked under SpecGen).           *)
(***************************************************************************)
\* the text is a valid problem object, token "b1" between its braces, with
\* anything that holds no second object before and after it
ContainsOneProblemObject(text) ==
    /\ Cardinality(Positions(text, "b1")) = 1
    /\ \E i \in 2..(Len(text) - 1) :
         text[i] = "b1" /\ text[i - 1] = "{" /\ text[i + 1] = "}"

\* neither the direct parse nor the parse of the cleaned text succeeds
Unparseable(text) == ~JSONParse(text).ok /\ ~JSONParse(CleanedText(text)).ok

\* the fallback problem, as the claims state it
SarahProblem ==
    [problem_text |-> Str("Sarah has 25 apples. She gives 10 apples to her friend. How many apples does Sarah have left?"),
     final_answer |-> Num(15),
     hint |-> Undef]

\* C7: for any raw model text that contains one valid JSON problem object,
\* bare, fenced, or preceded and followed by extra prose, the normalizer
\* yields that object's problem_text, final_answer and hint, not the default.
C7_NormalizerExtractsEmbeddedObject ==
    (gen.hasText /\ ContainsOneProblemObject(gen.text)) =>
        /\ gen.parsed.kind = "object"
        /\ gen.parsed.val = Members("b1")

\* C8 as stated: for any text that no strategy parses the normalizer yields
\* the default problem, and the request persists it and answers 201 with it.
C8_UnparseableAlwaysPersistsDefault ==
    (gen.hasText /\ Unparseable(gen.text)) =>
        /\ gen.parsed.val = SarahProblem
        /\ gen.pc = "done" =>
              /\ gen.resp.status = 201
              /\ gen.resp.problem = SarahProblem
              /\ Len(sessions) = 1

\* C8 as amended: for any text that no strategy parses the normalizer yields
\* the default problem (the Sarah text, answer 15, no hint) and the request
\* goes on to the insert with it; when the insert succeeds the row holds the
\* default and the answer is 201 with the default, and when the insert fails
\* the answer is 500 and no row is stored.
C8_UnparseableYieldsDefault ==
    (gen.hasText /\ Unparseable(gen.text)) =>
        /\ gen.parsed.kind = "fallback"
        /\ gen.parsed.val = SarahProblem
        /\ gen.pc \in {"insert", "done"}
        /\ gen.pc = "done" => gen.insert \in {"ok", "failed"}
        /\ gen.insert = "ok" =>
              /\ gen.resp.status = 201
              /\ gen.resp.problem = SarahProblem
              /\ gen.resp.sessionId = 1
              /\ Len(sessions) = 1
              /\ sessions[1].problem_text = SarahProblem.problem_text
              /\ sessions[1].correct_answer = Num(15)
              /\ sessions[1].hint = Null
        /\ gen.insert = "failed" => (gen.resp.status = 500 /\ sessions = <<>>)

\* prose that no strategy parses, persisted and returned as the default
C8_Witness ==
    /\ gen.hasText
    /\ gen.text = <<"w", "{", "w">>
    /\ gen.resp.status = 201
    /\ Len(sessions) = 1
    /\ sessions[1].correct_answer = Num(15)

\* the parse of the text succeeded (directly or on the cleaned text)
ParseSucceeded(text) == JSONParse(text).ok \/ JSONParse(CleanedText(text)).ok

\* C9: after a successful parse, a parsed value whose problem_text is empty
\* or missing or whose final_answer is not a number makes the request fail
\* with no session row inserted; every inserted row comes from a value with
\* a non-empty problem_text and a numeric final_answer.
C9_InvalidParsedValueIsNotPersisted ==
    /\ (gen.hasText /\ ParseSucceeded(gen.text)
          /\ (Falsy(gen.parsed.val.problem_text) \/ gen.parsed.val.final_answer.t # "number")) =>
          /\ gen.pc = "done"
          /\ gen.insert = "none"
          /\ gen.resp.status = 500
          /\ sessions = <<>>
    /\ \A i \in 1..Len(sessions) :
          /\ ~Falsy(sessions[i].problem_text)
          /\ sessions[i].correct_answer.t = "number"
          /\ sessions[i].problem_text = gen.parsed.val.problem_text
          /\ sessions[i].correct_answer = gen.parsed.val.final_answer

\* a fenced object whose final_answer is a string, refused with 500
C9_Witness ==
    /\ gen.hasText
    /\ gen.text = <<"f", "ws", "{", "bs", "}", "ws", "f">>
    /\ gen.parsed.kind = "object"
    /\ gen.resp.status = 500
    /\ sessions = <<>>

\* C10 as stated: whenever the model call returned text and the insert did
\* not fail, the endpoint answers 201 with a problem, whatever the text was.
C10_AnyTextAnswers201 ==
    (gen.pc = "done" /\ gen.hasText /\ gen.insert # "failed") =>
        /\ gen.resp.status = 201
        /\ ~Falsy(gen.resp.problem.problem_text)

\* the text parses, to a value that is not a well-formed problem
ParsedButMalformed(text) ==
    /\ ParseSucceeded(text)
    /\ LET v == (IF JSONParse(text).ok THEN JSONParse(text) ELSE JSONParse(CleanedText(text)))
       IN  \/ v.kind # "object"
           \/ v.val.problem_text.t # "string"
           \/ v.val.problem_text.s = ""
           \/ v.val.final_answer.t # "number"

\* C10 as amended: whenever the model call returned text and the insert did
\* not fail, the endpoint answers 201 with a problem unless the text parses
\* (directly or after cleaning) to a value that is not a well-formed problem;
\* text that no strategy parses is recovered by the fallback, and text that
\* parses to a malformed value is surfaced as status 500 with nothing stored.
C10_OnlyUnparseableTextIsRecovered ==
    (gen.pc = "done" /\ gen.hasText /\ gen.insert # "failed") =>
        /\ ~ParsedButMalformed(gen.text) =>
              /\ gen.resp.status = 201
              /\ ~Falsy(gen.resp.problem.problem_text)
              /\ gen.resp.problem.final_answer.t = "number"
              /\ Len(sessions) = 1
        /\ ParsedButMalformed(gen.text) =>
              /\ gen.resp.status = 500
              /\ sessions = <<>>

\* a fence with nothing parseable in it, answered 201 with the default
C10_Witness ==
    /\ gen.pc = "done"
    /\ gen.hasText
    /\ gen.text = <<"fj", "w", "f">>
    /\ gen.resp.status = 201
    /\ gen.resp.problem.final_answer = Num(15)

(***************************************************************************)
(* Claims about failures and defaults of the generation endpoint (checked  *)
(* under SpecGen).                                                         *)
(***************************************************************************)
\* C11: when the model call throws or the session insert returns an error,
\* the generation endpoint answers 500, never 201, with a message that
\* carries the underlying error's message (the thrown error's message, or
\* "Failed to save problem: " followed by the database's message), the
\* response holds no sessionId and no session row is stored.
C11_GenerationFailureAnswers500 ==
    (gen.ai = "failed" \/ gen.insert = "failed") =>
        /\ gen.pc = "done"
        /\ gen.resp.status = 500
        /\ gen.resp.sessionId = 0
        /\ sessions = <<>>
        /\ gen.ai = "failed" => (gen.cause \in AIErrors /\ gen.resp.error = gen.cause)
        /\ gen.insert = "failed" =>
              /\ gen.cause \in DbErrors
              /\ gen.resp.error = "Failed to save problem: " \o gen.cause

\* a valid problem whose insert was refused, answered 500 with the database's message
C11_Witness ==
    /\ gen.insert = "failed"
    /\ gen.parsed.val = Members("b1")
    /\ gen.cause = "connection refused"
    /\ gen.resp.error = "Failed to save problem: connection refused"

(***************************************************************************)
(* Claims about the generation request's body (checked under               *)
(* SpecGenBodies).                                                         *)
(***************************************************************************)
\* the preferences a request asks for, 'medium' and 'random' standing for
\* the ones it omits
RequestedDifficulty(body) ==
    IF body.json /\ body.difficulty # Undef THEN body.difficulty ELSE Str("medium")

RequestedTopic(body) ==
    IF body.json /\ body.topic # Undef THEN body.topic ELSE Str("random")

\* C12: a generate request that omits difficulty, omits topic or carries no
\* body at all is processed with 'medium' and 'random' for the omitted
\* values, a session it creates stores those values, and it is never
\* answered with an error before the model call was made.
C12_OmittedBodyIsDefaulted ==
    gen.pc # "idle" =>
        /\ gen.difficulty = RequestedDifficulty(gen.body)
        /\ gen.topic = RequestedTopic(gen.body)
        /\ gen.insert = "ok" =>
              /\ sessions[1].difficulty = RequestedDifficulty(gen.body)
              /\ sessions[1].topic = RequestedTopic(gen.body)
        /\ ~(gen.pc = "done" /\ gen.ai = "none")

(***************************************************************************)
(* Claims about the two tables (checked under Spec).                       *)
(***************************************************************************)
\* C13: every stored submission row has is_correct true exactly when its
\* user_answer equals the correct_answer of the session its session_id
\* names, and no step changes is_correct of a row already stored.
C13_CorrectnessIsDeterministicAndFixed ==
    /\ [](\A i \in 1..Len(submissions) :
            /\ submissions[i].session_id \in 1..Len(sessions)
            /\ submissions[i].is_correct
                  <=> (submissions[i].user_answer
                          = sessions[submissions[i].session_id].correct_answer))
    /\ [][\A i \in 1..Len(submissions) :
            /\ i <= Len(submissions')
            /\ submissions'[i].is_correct = submissions[i].is_correct]_vars

\* two attempts at one session, the first judged wrong, the second right
C13_Witness ==
    /\ Len(submissions) = 2
    /\ submissions[1].session_id = submissions[2].session_id
    /\ ~submissions[1].is_correct
    /\ submissions[2].is_correct
    /\ submissions[2].user_answer = sessions[submissions[2].session_id].correct_answer

\* C14: no step changes or removes a stored session row; a step of a submit
\* request leaves the sessions table unchanged, and the table changes only
\* when a generate request's insert succeeds, which appends one new row.
C14_SessionsAreImmutable ==
    [][/\ \A i \in 1..Len(sessions) :
            i <= Len(sessions') /\ sessions'[i] = sessions[i]
       /\ sub' # sub => sessions' = sessions
       /\ sessions' # sessions =>
            /\ gen.pc = "insert"
            /\ gen'.pc = "done"
            /\ Len(sessions') = Len(sessions) + 1
            /\ sessions'[Len(sessions')].id = Len(sessions')]_vars

\* a second generate request and a submit request served after a first session was stored
C14_Witness ==
    /\ Len(sessions) = 2
    /\ Len(submissions) = 1
    /\ sessions[1].id = 1
    /\ sessions[1].problem_text # sessions[2].problem_text

\* C15: the submissions table is append-only: no step changes or removes a
\* stored row, the table changes only at a submit request's insert, a
\* successful insert adds exactly one row (the request's), a failed one adds
\* none, and a row is added whatever rows already name the same session.
C15_SubmissionsAreAppendOnly ==
    [][/\ \A i \in 1..Len(submissions) :
            i <= Len(submissions') /\ submissions'[i] = submissions[i]
       /\ submissions' # submissions => (sub.pc = "insert" /\ sub'.save = "ok")
       /\ (sub.pc = "insert" /\ sub'.save = "ok") =>
            /\ Len(submissions') = Len(submissions) + 1
            /\ submissions'[Len(submissions')].session_id = sub.body.sessionId
            /\ submissions'[Len(submissions')].user_answer = sub.body.userAnswer
       /\ (sub.pc = "insert" /\ sub'.save = "failed") => submissions' = submissions]_vars

\* two stored rows naming the same session, the second just saved
C15_Witness ==
    /\ Len(submissions) = 2
    /\ sub.save = "ok"
    /\ submissions[1].session_id = 1
    /\ submissions[2].session_id = 1
    /\ Len(sessions) = 1

\* the stored rows that hold the same session and answer as the request in sub
EarlierAttempts ==
    {i \in 1..Len(submissions) :
        /\ submissions[i].session_id = sub.body.sessionId
        /\ submissions[i].user_answer = sub.body.userAnswer}

\* C16: no operation is idempotent: a successful submit request adds a row
\* even when rows of identical requests are already stored, the new row
\* holding the same session, answer and correctness as those; and a
\* successful generate request adds a session whose identifier differs from
\* every identifier already stored, even when the same problem is stored.
C16_RepeatedRequestsAddRows ==
    [][/\ (sub.pc = "insert" /\ sub'.save = "ok") =>
            /\ Len(submissions') = Len(submissions) + 1
            /\ \A i \in EarlierAttempts :
                  /\ submissions'[i] = submissions[i]
                  /\ submissions'[Len(submissions')].session_id = submissions[i].session_id
                  /\ submissions'[Len(submissions')].user_answer = submissions[i].user_answer
                  /\ submissions'[Len(submissions')].is_correct = submissions[i].is_correct
       /\ (gen.pc = "insert" /\ gen'.insert = "ok") =>
            /\ Len(sessions') = Len(sessions) + 1
            /\ gen'.resp.sessionId = sessions'[Len(sessions')].id
            /\ \A i \in 1..Len(sessions) : sessions'[i].id # gen'.resp.sessionId]_vars

\* the same submit request served twice: two equal rows
C16_Witness ==
    /\ Len(submissions) = 2
    /\ submissions[1] = submissions[2]
    /\ submissions[1].is_correct
    /\ sub.resp.status = 201

\* the stored sessions whose identifier is id
SessionsWithId(id) == {j \in 1..Len(sessions) : sessions[j].id = id}

\* C17: every stored submission row names exactly one stored session: a row
\* is written only after its session was read, and sessions are not removed.
C17_SubmissionsReferenceOneSession ==
    \A i \in 1..Len(submissions) :
        Cardinality(SessionsWithId(submissions[i].session_id)) = 1

\* an attempt stored against the second of two sessions
C17_Witness ==
    /\ Len(sessions) = 2
    /\ Len(submissions) = 1
    /\ submissions[1].session_id = 2
    /\ SessionsWithId(2) = {2}

(***************************************************************************)
(* Claims about the fields of a stored session.                            *)
(***************************************************************************)
\* C18 (checked under SpecGenBodies): every stored session has a difficulty
\* among easy, medium, hard and a topic among addition, subtraction,
\* multiplication, division, random, whatever body the request carried.
C18_StoredPreferencesAreInDomain ==
    \A i \in 1..Len(sessions) :
        /\ sessions[i].difficulty.t = "string"
        /\ sessions[i].difficulty.s \in Difficulties
        /\ sessions[i].topic.t = "string"
        /\ sessions[i].topic.s \in Topics

\* C19 (checked under SpecGen): the correct_answer of every stored session
\* is an integer, so an integer answer exists that is judged correct for it.
C19_StoredAnswerIsAnInteger ==
    \A i \in 1..Len(sessions) :
        /\ IsInteger(sessions[i].correct_answer)
        /\ \E k \in -1000..1000 : IsCorrect(Num(k), sessions[i].correct_answer)

\* the value the normalizer produced is a problem the handler accepts
AcceptedProblem ==
    /\ gen.hasText
    /\ gen.parsed.kind \in {"object", "fallback"}
    /\ gen.parsed.val.problem_text.t = "string"
    /\ gen.parsed.val.problem_text.s # ""
    /\ gen.parsed.val.final_answer.t = "number"

\* C20 (checked under SpecGen): a problem with valid text and a numeric
\* answer goes on to the insert whether or not it has a hint; when the insert
\* succeeds the request answers 201 with the problem and the stored row
\* holds its text and answer, with the hint when there is one and null when
\* there is none; the absence of the hint is never an error.
C20_HintIsOptional ==
    AcceptedProblem =>
        /\ gen.pc \in {"insert", "done"}
        /\ gen.pc = "done" => gen.insert \in {"ok", "failed"}
        /\ gen.resp.status = 500 => gen.insert = "failed"
        /\ gen.insert = "ok" =>
              /\ gen.resp.status = 201
              /\ gen.resp.sessionId = 1
              /\ gen.resp.problem = gen.parsed.val
              /\ sessions[1].problem_text = gen.parsed.val.problem_text
              /\ sessions[1].correct_answer = gen.parsed.val.final_answer
              /\ sessions[1].hint =
                    (IF gen.parsed.val.hint = Undef THEN Null ELSE gen.parsed.val.hint)

\* a fenced problem without a hint, stored with a null hint and answered 201
C20_Witness ==
    /\ gen.text = <<"fj", "ws", "{", "b2", "}", "ws", "f">>
    /\ gen.parsed.val.hint = Undef
    /\ gen.insert = "ok"
    /\ gen.resp.status = 201
    /\ sessions[1].hint = Null
    /\ sessions[1].correct_answer = Num(12)

(***************************************************************************)
(* Claims about one submit request's steps (checked under SpecSubmit).     *)
(***************************************************************************)
\* the order of the awaits of the submit handler
SubmitStepOrder ==
    { <<"idle", "fetch">>, <<"idle", "done">>, <<"fetch", "feedback">>, <<"fetch", "done">>,
      <<"feedback", "insert">>, <<"feedback", "done">>, <<"insert", "done">> }

\* C21: within one submit request the steps are, in this order, the read of
\* the session with the evaluation of the answer, one feedback call, the
\* write of the submission row, the response; each happens at most once; the
\* row is written only after the feedback call returned; and a request whose
\* feedback call failed is answered 500 with no row written.
C21_SubmitStepsInOrder ==
    /\ [](/\ sub.dbReads <= 1 /\ sub.aiCalls <= 1 /\ sub.dbWrites <= 1
          /\ sub.aiCalls = 1 => sub.dbReads = 1
          /\ sub.dbWrites = 1 => sub.aiCalls = 1
          /\ sub.pc = "feedback" => (sub.dbReads = 1 /\ sub.aiCalls = 0)
          /\ sub.pc = "insert" => (sub.aiCalls = 1 /\ sub.dbWrites = 0)
          /\ sub.resp.status # 0 <=> sub.pc = "done"
          /\ (sub.pc = "done" /\ sub.aiCalls = 1 /\ sub.dbWrites = 0) =>
                (sub.resp.status = 500 /\ submissions = <<>>))
    /\ [][/\ sub'.pc # sub.pc => <<sub.pc, sub'.pc>> \in SubmitStepOrder
          /\ submissions' # submissions =>
                (sub.pc = "insert" /\ sub.aiCalls = 1 /\ sub'.dbWrites = 1)]_vars

\* a request whose feedback call threw: read and call made, nothing written, 500
C21_Witness ==
    /\ sub.pc = "done"
    /\ sub.dbReads = 1
    /\ sub.aiCalls = 1
    /\ sub.dbWrites = 0
    /\ sub.resp.status = 500
    /\ submissions = <<>>

(***************************************************************************)
(* Claims about requests that follow one another (checked under Spec).     *)
(***************************************************************************)
\* C22: once a generate request has answered 201 with sessionId s and problem
\* p, the session with identifier s is stored and holds p.problem_text and
\* p.final_answer; and a submit request that has read a stored session and
\* whose userAnswer is that session's answer judges it correct, and says so in
\* every response that carries a result, whatever requests were served in
\* between.
C22_GeneratedProblemIsTheOneJudged ==
    /\ gen.resp.status = 201 =>
          /\ gen.resp.sessionId \in 1..Len(sessions)
          /\ sessions[gen.resp.sessionId].id = gen.resp.sessionId
          /\ sessions[gen.resp.sessionId].problem_text = gen.resp.problem.problem_text
          /\ sessions[gen.resp.sessionId].correct_answer = gen.resp.problem.final_answer
    /\ sub.session # NoSession =>
          /\ sub.body.sessionId \in 1..Len(sessions)
          /\ sub.session = sessions[sub.body.sessionId]
          /\ sub.body.userAnswer = sessions[sub.body.sessionId].correct_answer
                => sub.isCorrect
          /\ (sub.resp.hasResult
                /\ sub.body.userAnswer = sessions[sub.body.sessionId].correct_answer)
                => sub.resp.isCorrect

\* the first session's answer, submitted when a second session has been
\* generated, is judged correct
C22_Witness ==
    /\ Len(sessions) = 2
    /\ gen.resp.status = 201
    /\ gen.resp.sessionId = 2
    /\ sub.resp.hasResult
    /\ sub.body.sessionId = 1
    /\ sub.body.userAnswer = sessions[1].correct_answer
    /\ sub.resp.isCorrect

\* what a submit request with this body produces when it is served alone,
\* reads this session row, receives this feedback and its insert succeeds
AloneRow(body, session, feedback) ==
    LET isCorrect == body.userAnswer = session.correct_answer
    IN  [session_id |-> body.sessionId,
         user_answer |-> body.userAnswer,
         is_correct |-> isCorrect,
         feedback_text |-> feedback,
         time_taken_seconds |-> OrElse(body.timeTakenSeconds, Null),
         stars_earned |-> StarsEarned(isCorrect, body.timeTakenSeconds, session)]

AloneResponse(body, session, feedback) ==
    [status |-> 201, hasResult |-> TRUE,
     isCorrect |-> (body.userAnswer = session.correct_answer), feedback |-> feedback]

\* C23: under every interleaving of generate and submit requests, the
\* response and the stored row of a submit request are those the request
\* would produce alone: they are determined by its body, the session row its
\* identifier names and the feedback it received, and by nothing a request
\* served at the same time has done.
C23_SubmitIsIndependentOfOtherRequests ==
    /\ sub.resp.hasResult =>
          /\ sub.body.sessionId \in 1..Len(sessions)
          /\ sub.resp = AloneResponse(sub.body, sessions[sub.body.sessionId], sub.feedbackText)
    /\ sub.save = "ok" =>
          submissions[Len(submissions)]
              = AloneRow(sub.body, sessions[sub.body.sessionId], sub.feedbackText)

\* a submit for the first session saved while a second generate request,
\* whose problem differs, is waiting for its insert
C23_Witness ==
    /\ sub.save = "ok"
    /\ sub.body.sessionId = 1
    /\ sub.resp.isCorrect
    /\ Len(sessions) = 1
    /\ gen.pc = "insert"
    /\ gen.parsed.val.final_answer # sessions[1].correct_answer

(***************************************************************************)
(* Claims about the stored rating (checked under SpecSubmit).              *)
(***************************************************************************)
\* the rating a stored time earns under a session's thresholds
RatingOfStoredTime(row, session) ==
    LET threshold == Thresholds(SessionDifficulty(session))
    IN  IF row.time_taken_seconds.n < threshold.three THEN 3
        ELSE IF row.time_taken_seconds.n < threshold.two THEN 2
        ELSE 1

\* C30: a stored submission row with more than 0 stars has a time that is
\* not null, and its stars are the rating that time earns under the
\* thresholds of its session's difficulty.
C30_StoredStarsMatchStoredTime ==
    \A i \in 1..Len(submissions) :
        submissions[i].stars_earned > 0 =>
            /\ submissions[i].time_taken_seconds.t = "number"
            /\ submissions[i].stars_earned
                  = RatingOfStoredTime(submissions[i], sessions[submissions[i].session_id])

(***************************************************************************)
(* Claims about the page.                                                  *)
(***************************************************************************)
\* C24: in every state of the page at most one request it has started,
\* generate or submit, is in flight.
C24_AtMostOneRequestInFlight == Len(page.requests) <= 1

\* C25: isLoading is true only while a request of the page is in flight, and
\* loadingType is set only while isLoading is; every request the page has
\* started, whether it succeeds or fails, is followed by a state with no
\* request in flight, isLoading = false and loadingType = null.
C25_LoadingIsAlwaysCleared ==
    /\ [](page.isLoading => Len(page.requests) > 0)
    /\ [](page.loadingType # "null" <=> page.isLoading)
    /\ (Len(page.requests) > 0)
          ~> (Len(page.requests) = 0 /\ ~page.isLoading /\ page.loadingType = "null")

\* a failed request, after which nothing is in flight and the loading state is cleared
C25_Witness ==
    /\ page.started > 0
    /\ page.error = "Failed to submit answer. Please try again."
    /\ page.requests = <<>>
    /\ ~page.isLoading
    /\ page.loadingType = "null"

\* the step is a click on 'Generate Problem'
GenerateClicked ==
    /\ page.showSettingsModal
    /\ ~page'.showSettingsModal
    /\ Len(page'.requests) = Len(page.requests) + 1
    /\ page'.requests[Len(page'.requests)].kind = "generate"

\* C26: the committed difficulty and topic change only at a click on
\* 'Generate Problem'; opening the modal, choosing in it and closing it by
\* Cancel, the X, the backdrop or Escape leave them as they were; the click
\* sets them to the temporary values and sends exactly those in the request.
C26_SettingsCommitOnlyOnGenerate ==
    [][/\ ~GenerateClicked =>
            (page'.difficulty = page.difficulty /\ page'.topic = page.topic)
       /\ GenerateClicked =>
            /\ page'.difficulty = page.tempDifficulty
            /\ page'.topic = page.tempTopic
            /\ page'.requests[Len(page'.requests)].difficulty = page.tempDifficulty
            /\ page'.requests[Len(page'.requests)].topic = page.tempTopic]_vars

\* a choice made in the modal and abandoned: the modal is closed, the
\* committed values are the initial ones and no request was sent
C26_Witness ==
    /\ page.started = 0
    /\ ~page.showSettingsModal
    /\ page.tempDifficulty = "hard"
    /\ page.tempTopic = "division"
    /\ page.difficulty = "medium"
    /\ page.topic = "random"

\* C27: whenever feedback, correctness or stars are set on the page, they
\* come from a submission against the session of the problem displayed.
C27_FeedbackBelongsToDisplayedProblem ==
    /\ (page.isCorrect # "null" \/ page.starsEarned # -1) => page.feedback # 0
    /\ page.feedback # 0 =>
          /\ page.feedback \in 1..Len(submissions)
          /\ submissions[page.feedback].session_id = page.sessionId

\* C28: no step removes an unlocked achievement, in the page's state or in
\* localStorage.
C28_AchievementsOnlyGrow ==
    [][/\ page.achievements \subseteq page'.achievements
       /\ page.mathAchievements \subseteq page'.mathAchievements]_vars

\* C29: the stars the page shows for a submission judged correct are the
\* stars_earned stored in that submission's row.
C29_ShownStarsAreStoredStars ==
    (page.feedback # 0 /\ page.isCorrect = "true") =>
        page.starsEarned = submissions[page.feedback].stars_earned

====
